---------------------------- MODULE Spec2Model ----------------------------
(***************************************************************************)
(* Task constraints of ProcessScheduler                                    *)
(* (src/processscheduler/task_constraint.py).                              *)
(*                                                                         *)
(* Every constraint constructor builds one or more z3 formulas over the    *)
(* symbolic variables of its tasks (start, end, scheduled) and registers   *)
(* them.  A formula is modelled as a syntax tree, built node by node as    *)
(* the constructor builds it, and evaluated under an assignment of the     *)
(* variables with the meaning z3 gives each connective.                    *)
(*                                                                         *)
(* State: the optionality flag of every task (fixed when the task is       *)
(* created), the lower_bounded and upper_bounded flags of every task       *)
(* (false on a new task), the assertions registered so far, the number of  *)
(* constructor calls made, and the last constructor call (its arguments,   *)
(* the exception it raised if any, and the number of assertions            *)
(* registered before it started).                                          *)
(*                                                                         *)
(* The `optional` argument of a constructor (the constraint's own          *)
(* excludability) is stored by every constructor and read by none of the   *)
(* code modelled here; the model takes its default, False.                 *)
(***************************************************************************)
EXTENDS Integers, Sequences, FiniteSets, TLC

VARIABLES optional, lower_bounded, upper_bounded, assertions, ncalls, last

vars == <<optional, lower_bounded, upper_bounded, assertions, ncalls, last>>

---------------------------------------------------------------------------
(* Bounds of the model *)

NumTasks == 3

MaxTime == 3

MaxOffset == 1

MaxCalls == 2

Tasks == 1..NumTasks

Times == 0..MaxTime

(* An offset argument: a Python int, or a value that is no int (a float). *)
OffsetInputs ==
    {[isint |-> TRUE, val |-> v] : v \in -1..MaxOffset}
        \cup {[isint |-> FALSE, val |-> 1]}

(* The kind argument: the strings the code knows and one it does not. *)
PrecedenceKindInputs == {"lax", "strict", "tight", "other"}

CountKindInputs == {"atleast", "atmost", "exact", "other"}

---------------------------------------------------------------------------
(* z3 expressions, as syntax trees *)

task_start(task) == [op |-> "start", task |-> task]

task_end(task) == [op |-> "end", task |-> task]

task_scheduled(task) == [op |-> "scheduled", task |-> task]

Bool(name) == [op |-> "Bool", name |-> name]

IntVal(v) == [op |-> "IntVal", v |-> v]

Add(a, b) == [op |-> "+", args |-> <<a, b>>]

Le(a, b) == [op |-> "<=", args |-> <<a, b>>]

Lt(a, b) == [op |-> "<", args |-> <<a, b>>]

Eq(a, b) == [op |-> "==", args |-> <<a, b>>]

Ge(a, b) == [op |-> ">=", args |-> <<a, b>>]

Gt(a, b) == [op |-> ">", args |-> <<a, b>>]

And(fs) == [op |-> "And", args |-> fs]

Or(fs) == [op |-> "Or", args |-> fs]

Not(f) == [op |-> "Not", args |-> <<f>>]

Implies(f, g) == [op |-> "Implies", args |-> <<f, g>>]

Xor(f, g) == [op |-> "Xor", args |-> <<f, g>>]

(* PbGe / PbLe / PbEq: args is a sequence of <<literal, coefficient>>. *)
PbGe(args, k) == [op |-> "PbGe", args |-> args, k |-> k]

PbLe(args, k) == [op |-> "PbLe", args |-> args, k |-> k]

PbEq(args, k) == [op |-> "PbEq", args |-> args, k |-> k]

(* The name of the indicator the interval constraint creates. *)
InTimeIntervalTask(task_name, i) == <<"InTimeIntervalTask", task_name, i>>

IndicatorNames == {InTimeIntervalTask(t, 0) : t \in Tasks}

(* The value of an integer term under the assignment a. *)
RECURSIVE EvalInt(_, _)
EvalInt(e, a) ==
    CASE e.op = "start" -> a.start[e.task]
      [] e.op = "end" -> a.end[e.task]
      [] e.op = "IntVal" -> e.v
      [] e.op = "+" -> EvalInt(e.args[1], a) + EvalInt(e.args[2], a)

(* The truth value of a formula under the assignment a. *)
RECURSIVE Eval(_, _)
RECURSIVE PbSum(_, _)
PbSum(args, a) ==
    IF args = <<>> THEN 0
    ELSE (IF Eval(args[1][1], a) THEN args[1][2] ELSE 0) + PbSum(Tail(args), a)

Eval(f, a) ==
    CASE f.op = "scheduled" -> a.scheduled[f.task]
      [] f.op = "Bool" -> a.bool[f.name]
      [] f.op = "<=" -> EvalInt(f.args[1], a) <= EvalInt(f.args[2], a)
      [] f.op = "<" -> EvalInt(f.args[1], a) < EvalInt(f.args[2], a)
      [] f.op = "==" -> EvalInt(f.args[1], a) = EvalInt(f.args[2], a)
      [] f.op = ">=" -> EvalInt(f.args[1], a) >= EvalInt(f.args[2], a)
      [] f.op = ">" -> EvalInt(f.args[1], a) > EvalInt(f.args[2], a)
      [] f.op = "And" -> \A i \in 1..Len(f.args) : Eval(f.args[i], a)
      [] f.op = "Or" -> \E i \in 1..Len(f.args) : Eval(f.args[i], a)
      [] f.op = "Not" -> ~Eval(f.args[1], a)
      [] f.op = "Implies" -> (Eval(f.args[1], a) => Eval(f.args[2], a))
      [] f.op = "Xor" -> (Eval(f.args[1], a) # Eval(f.args[2], a))
      [] f.op = "PbGe" -> PbSum(f.args, a) >= f.k
      [] f.op = "PbLe" -> PbSum(f.args, a) <= f.k
      [] f.op = "PbEq" -> PbSum(f.args, a) = f.k

---------------------------------------------------------------------------
(* The outcome of a constructor: the exception raised ("none" when it      *)
(* returns) and the assertions of the context when it ends.                *)

Outcome(raised, registered) == [raised |-> raised, assertions |-> registered]

(* _Constraint.set_applied_not_applied_assertions: the formula joins the   *)
(* assertions of the owning context.                                       *)
set_applied_not_applied_assertions(registered, assertion) ==
    Append(registered, assertion)

(* One constructor call: the context's assertions become those the        *)
(* constructor leaves, and the call is recorded (its value field is the    *)
(* constraint's self.value).  No constructor assigns an attribute of a     *)
(* task.                                                                   *)
Construct(call, out) ==
    /\ assertions' = out.assertions
    /\ ncalls' = ncalls + 1
    /\ last' = call @@ [raised |-> out.raised, before |-> Len(assertions)]
    /\ UNCHANGED <<optional, lower_bounded, upper_bounded>>

---------------------------------------------------------------------------
(* TaskPrecedence *)

(* Mutant: the offset is dropped from the lower bound. *)
TaskPrecedence_lower_without_offset(task_before, offset) ==
    task_end(task_before)

TaskPrecedence_lower(task_before, offset) ==
    IF offset.val > 0
    THEN Add(task_end(task_before), IntVal(offset.val))
    ELSE task_end(task_before)

TaskPrecedence_scheduled_assertion(task_before, task_after, offset, kind) ==
    LET lower == TaskPrecedence_lower(task_before, offset)
        upper == task_start(task_after)
    IN  IF kind = "lax" THEN Le(lower, upper)
        ELSE IF kind = "strict" THEN Lt(lower, upper)
        ELSE Eq(lower, upper)

TaskPrecedence_assertion(task_before, task_after, offset, kind) ==
    LET scheduled_assertion ==
            TaskPrecedence_scheduled_assertion(task_before, task_after, offset, kind)
    IN  IF optional[task_before] \/ optional[task_after]
        THEN Implies(And(<<task_scheduled(task_before), task_scheduled(task_after)>>),
                     scheduled_assertion)
        ELSE scheduled_assertion

(* Mutant: the offset is checked to be an int only, not to be >= 0. *)
TaskPrecedence_init_any_int_offset(registered, task_before, task_after, offset, kind) ==
    IF kind \notin {"lax", "strict", "tight"}
    THEN Outcome("ValueError", registered)
    ELSE IF ~offset.isint
    THEN Outcome("ValueError", registered)
    ELSE Outcome("none",
                 set_applied_not_applied_assertions(
                     registered,
                     TaskPrecedence_assertion(task_before, task_after, offset, kind)))

TaskPrecedence_init(registered, task_before, task_after, offset, kind) ==
    IF kind \notin {"lax", "strict", "tight"}
    THEN Outcome("ValueError", registered)
    ELSE IF ~offset.isint \/ offset.val < 0
    THEN Outcome("ValueError", registered)
    ELSE Outcome("none",
                 set_applied_not_applied_assertions(
                     registered,
                     TaskPrecedence_assertion(task_before, task_after, offset, kind)))

TaskPrecedence(task_before, task_after, offset, kind) ==
    Construct([ctor |-> "TaskPrecedence", task_before |-> task_before,
               task_after |-> task_after, offset |-> offset, kind |-> kind],
              TaskPrecedence_init(assertions, task_before, task_after, offset, kind))

---------------------------------------------------------------------------
(* TasksStartSynced, TasksEndSynced, TasksDontOverlap *)

TasksStartSynced_assertion(task_1, task_2) ==
    LET scheduled_assertion == Eq(task_start(task_1), task_start(task_2))
    IN  IF optional[task_1] \/ optional[task_2]
        THEN Implies(And(<<task_scheduled(task_1), task_scheduled(task_2)>>),
                     scheduled_assertion)
        ELSE scheduled_assertion

TasksStartSynced_init(registered, task_1, task_2) ==
    Outcome("none",
            set_applied_not_applied_assertions(
                registered, TasksStartSynced_assertion(task_1, task_2)))

TasksStartSynced(task_1, task_2) ==
    Construct([ctor |-> "TasksStartSynced", task_1 |-> task_1, task_2 |-> task_2],
              TasksStartSynced_init(assertions, task_1, task_2))

(* Mutant: the guard holds as soon as one of the two tasks is scheduled. *)
TasksEndSynced_assertion_either_scheduled(task_1, task_2) ==
    LET scheduled_assertion == Eq(task_end(task_1), task_end(task_2))
    IN  IF optional[task_1] \/ optional[task_2]
        THEN Implies(Or(<<task_scheduled(task_1), task_scheduled(task_2)>>),
                     scheduled_assertion)
        ELSE scheduled_assertion

TasksEndSynced_assertion(task_1, task_2) ==
    LET scheduled_assertion == Eq(task_end(task_1), task_end(task_2))
    IN  IF optional[task_1] \/ optional[task_2]
        THEN Implies(And(<<task_scheduled(task_1), task_scheduled(task_2)>>),
                     scheduled_assertion)
        ELSE scheduled_assertion

TasksEndSynced_init(registered, task_1, task_2) ==
    Outcome("none",
            set_applied_not_applied_assertions(
                registered, TasksEndSynced_assertion(task_1, task_2)))

TasksEndSynced(task_1, task_2) ==
    Construct([ctor |-> "TasksEndSynced", task_1 |-> task_1, task_2 |-> task_2],
              TasksEndSynced_init(assertions, task_1, task_2))

(* Mutant: the second ordering is strict. *)
TasksDontOverlap_scheduled_assertion_strict(task_1, task_2) ==
    Xor(Ge(task_start(task_2), task_end(task_1)),
        Gt(task_start(task_1), task_end(task_2)))

(* Mutant: the first ordering compares the two starts. *)
TasksDontOverlap_scheduled_assertion_starts(task_1, task_2) ==
    Xor(Ge(task_start(task_2), task_start(task_1)),
        Ge(task_start(task_1), task_end(task_2)))

TasksDontOverlap_scheduled_assertion(task_1, task_2) ==
    Xor(Ge(task_start(task_2), task_end(task_1)),
        Ge(task_start(task_1), task_end(task_2)))

TasksDontOverlap_assertion(task_1, task_2) ==
    LET scheduled_assertion == TasksDontOverlap_scheduled_assertion(task_1, task_2)
    IN  IF optional[task_1] \/ optional[task_2]
        THEN Implies(And(<<task_scheduled(task_1), task_scheduled(task_2)>>),
                     scheduled_assertion)
        ELSE scheduled_assertion

TasksDontOverlap_init(registered, task_1, task_2) ==
    Outcome("none",
            set_applied_not_applied_assertions(
                registered, TasksDontOverlap_assertion(task_1, task_2)))

TasksDontOverlap(task_1, task_2) ==
    Construct([ctor |-> "TasksDontOverlap", task_1 |-> task_1, task_2 |-> task_2],
              TasksDontOverlap_init(assertions, task_1, task_2))

---------------------------------------------------------------------------
(* Constraints on one task *)

TaskStartAt_assertion(task, value) ==
    LET scheduled_assertion == Eq(task_start(task), IntVal(value))
    IN  IF optional[task]
        THEN Implies(task_scheduled(task), scheduled_assertion)
        ELSE scheduled_assertion

TaskStartAt(task, value) ==
    Construct([ctor |-> "TaskStartAt", task |-> task, value |-> value],
              Outcome("none", set_applied_not_applied_assertions(
                                  assertions, TaskStartAt_assertion(task, value))))

TaskStartAfterStrict_assertion(task, value) ==
    LET scheduled_assertion == Gt(task_start(task), IntVal(value))
    IN  IF optional[task]
        THEN Implies(task_scheduled(task), scheduled_assertion)
        ELSE scheduled_assertion

TaskStartAfterStrict(task, value) ==
    Construct([ctor |-> "TaskStartAfterStrict", task |-> task, value |-> value],
              Outcome("none", set_applied_not_applied_assertions(
                                  assertions, TaskStartAfterStrict_assertion(task, value))))

TaskStartAfterLax_assertion(task, value) ==
    LET scheduled_assertion == Ge(task_start(task), IntVal(value))
    IN  IF optional[task]
        THEN Implies(task_scheduled(task), scheduled_assertion)
        ELSE scheduled_assertion

TaskStartAfterLax(task, value) ==
    Construct([ctor |-> "TaskStartAfterLax", task |-> task, value |-> value],
              Outcome("none", set_applied_not_applied_assertions(
                                  assertions, TaskStartAfterLax_assertion(task, value))))

TaskEndAt_assertion(task, value) ==
    LET scheduled_assertion == Eq(task_end(task), IntVal(value))
    IN  IF optional[task]
        THEN Implies(task_scheduled(task), scheduled_assertion)
        ELSE scheduled_assertion

TaskEndAt(task, value) ==
    Construct([ctor |-> "TaskEndAt", task |-> task, value |-> value],
              Outcome("none", set_applied_not_applied_assertions(
                                  assertions, TaskEndAt_assertion(task, value))))

(* Mutant: the strict bound is registered as the lax one. *)
TaskEndBeforeStrict_assertion_lax(task, value) ==
    LET scheduled_assertion == Le(task_end(task), IntVal(value))
    IN  IF optional[task]
        THEN Implies(task_scheduled(task), scheduled_assertion)
        ELSE scheduled_assertion

TaskEndBeforeStrict_assertion(task, value) ==
    LET scheduled_assertion == Lt(task_end(task), IntVal(value))
    IN  IF optional[task]
        THEN Implies(task_scheduled(task), scheduled_assertion)
        ELSE scheduled_assertion

TaskEndBeforeStrict(task, value) ==
    Construct([ctor |-> "TaskEndBeforeStrict", task |-> task, value |-> value],
              Outcome("none", set_applied_not_applied_assertions(
                                  assertions, TaskEndBeforeStrict_assertion(task, value))))

TaskEndBeforeLax_assertion(task, value) ==
    LET scheduled_assertion == Le(task_end(task), IntVal(value))
    IN  IF optional[task]
        THEN Implies(task_scheduled(task), scheduled_assertion)
        ELSE scheduled_assertion

TaskEndBeforeLax(task, value) ==
    Construct([ctor |-> "TaskEndBeforeLax", task |-> task, value |-> value],
              Outcome("none", set_applied_not_applied_assertions(
                                  assertions, TaskEndBeforeLax_assertion(task, value))))

---------------------------------------------------------------------------
(* Constraints on optional tasks only *)

OptionalTaskConditionSchedule_init(registered, task, condition) ==
    IF ~optional[task]
    THEN Outcome("TypeError", registered)
    ELSE Outcome("none",
                 set_applied_not_applied_assertions(
                     registered, Implies(condition, task_scheduled(task))))

OptionalTaskConditionSchedule(task, condition) ==
    Construct([ctor |-> "OptionalTaskConditionSchedule", task |-> task,
               condition |-> condition],
              OptionalTaskConditionSchedule_init(assertions, task, condition))

(* Mutant: the dependency runs from task_2 to task_1. *)
OptionalTasksDependency_assertion_reversed(task_1, task_2) ==
    Implies(task_scheduled(task_2), task_scheduled(task_1))

OptionalTasksDependency_assertion(task_1, task_2) ==
    Implies(task_scheduled(task_1), task_scheduled(task_2))

OptionalTasksDependency_init(registered, task_1, task_2) ==
    IF ~optional[task_2]
    THEN Outcome("TypeError", registered)
    ELSE Outcome("none",
                 set_applied_not_applied_assertions(
                     registered, OptionalTasksDependency_assertion(task_1, task_2)))

OptionalTasksDependency(task_1, task_2) ==
    Construct([ctor |-> "OptionalTasksDependency", task_1 |-> task_1,
               task_2 |-> task_2],
              OptionalTasksDependency_init(assertions, task_1, task_2))

(* problem_function: the pseudo-boolean builder a kind names. *)
problem_function_keys == {"atleast", "atmost", "exact"}

(* Mutant: 'atleast' and 'atmost' name each other's builder. *)
problem_function_swapped(kind, args, k) ==
    IF kind = "atleast" THEN PbLe(args, k)
    ELSE IF kind = "atmost" THEN PbGe(args, k)
    ELSE PbEq(args, k)

problem_function(kind, args, k) ==
    IF kind = "atleast" THEN PbGe(args, k)
    ELSE IF kind = "atmost" THEN PbLe(args, k)
    ELSE PbEq(args, k)

(* [(scheduled, True) for scheduled in ...]: the coefficient True is the   *)
(* integer 1.                                                              *)
pb_args(bools) == [i \in 1..Len(bools) |-> <<bools[i], 1>>]

ForceScheduleNOptionalTasks_sched_vars(list_of_optional_tasks) ==
    [i \in 1..Len(list_of_optional_tasks) |->
        task_scheduled(list_of_optional_tasks[i])]

(* Mutant: only the first task of the list is checked to be optional. *)
ForceScheduleNOptionalTasks_init_first_only(registered, list_of_optional_tasks, nb_tasks_to_schedule, kind) ==
    IF ~optional[list_of_optional_tasks[1]]
    THEN Outcome("TypeError", registered)
    ELSE IF kind \notin problem_function_keys
    THEN Outcome("KeyError", registered)
    ELSE Outcome("none",
                 set_applied_not_applied_assertions(
                     registered,
                     problem_function(
                         kind,
                         pb_args(ForceScheduleNOptionalTasks_sched_vars(
                                     list_of_optional_tasks)),
                         nb_tasks_to_schedule)))

ForceScheduleNOptionalTasks_init(registered, list_of_optional_tasks, nb_tasks_to_schedule, kind) ==
    IF \E i \in 1..Len(list_of_optional_tasks) :
           ~optional[list_of_optional_tasks[i]]
    THEN Outcome("TypeError", registered)
    ELSE IF kind \notin problem_function_keys
    THEN Outcome("KeyError", registered)
    ELSE Outcome("none",
                 set_applied_not_applied_assertions(
                     registered,
                     problem_function(
                         kind,
                         pb_args(ForceScheduleNOptionalTasks_sched_vars(
                                     list_of_optional_tasks)),
                         nb_tasks_to_schedule)))

ForceScheduleNOptionalTasks(list_of_optional_tasks, nb_tasks_to_schedule, kind) ==
    Construct([ctor |-> "ForceScheduleNOptionalTasks",
               list_of_optional_tasks |-> list_of_optional_tasks,
               nb_tasks_to_schedule |-> nb_tasks_to_schedule, kind |-> kind],
              ForceScheduleNOptionalTasks_init(
                  assertions, list_of_optional_tasks, nb_tasks_to_schedule, kind))

---------------------------------------------------------------------------
(* ScheduleNTasksInTimeIntervals *)

(* The five conjuncts one time interval contributes for one task. *)
interval_cstrs(task, time_interval) ==
    LET lower_bound == IntVal(time_interval[1])
        upper_bound == IntVal(time_interval[2])
    IN  << Ge(task_start(task), lower_bound),
           Le(task_end(task), upper_bound),
           Not(And(<<Lt(task_start(task), lower_bound),
                     Gt(task_end(task), lower_bound)>>)),
           Not(And(<<Lt(task_start(task), upper_bound),
                     Gt(task_end(task), upper_bound)>>)),
           Not(And(<<Lt(task_start(task), lower_bound),
                     Gt(task_end(task), upper_bound)>>)) >>

(* cstrs, after the loop over the time intervals. *)
RECURSIVE task_cstrs(_, _)
task_cstrs(task, list_of_time_intervals) ==
    IF list_of_time_intervals = <<>> THEN <<>>
    ELSE interval_cstrs(task, Head(list_of_time_intervals))
             \o task_cstrs(task, Tail(list_of_time_intervals))

task_indicator(task) == Bool(InTimeIntervalTask(task, 0))

(* Mutant: the indicator asks for one of the conjuncts only. *)
task_interval_assertion_any(task, list_of_time_intervals) ==
    Implies(task_indicator(task), Or(task_cstrs(task, list_of_time_intervals)))

task_interval_assertion(task, list_of_time_intervals) ==
    Implies(task_indicator(task), And(task_cstrs(task, list_of_time_intervals)))

(* The loop over the tasks: each pass unpacks every interval (a            *)
(* ValueError when one has not two elements), then registers the task's    *)
(* implication.                                                            *)
RECURSIVE tasks_loop(_, _, _)
tasks_loop(registered, list_of_tasks, list_of_time_intervals) ==
    IF list_of_tasks = <<>> THEN Outcome("none", registered)
    ELSE IF \E i \in 1..Len(list_of_time_intervals) :
                Len(list_of_time_intervals[i]) # 2
    THEN Outcome("ValueError", registered)
    ELSE tasks_loop(
             set_applied_not_applied_assertions(
                 registered,
                 task_interval_assertion(Head(list_of_tasks), list_of_time_intervals)),
             Tail(list_of_tasks), list_of_time_intervals)

ScheduleNTasksInTimeIntervals_all_bools(list_of_tasks) ==
    [i \in 1..Len(list_of_tasks) |-> task_indicator(list_of_tasks[i])]

ScheduleNTasksInTimeIntervals_init(registered, list_of_tasks, nb_tasks_to_schedule, list_of_time_intervals, kind) ==
    IF ~list_of_tasks.islist
    THEN Outcome("TypeError", registered)
    ELSE IF ~list_of_time_intervals.islist
    THEN Outcome("TypeError", registered)
    ELSE IF list_of_time_intervals.items = <<>>
    THEN Outcome("IndexError", registered)
    ELSE IF Head(list_of_time_intervals.items) = <<>>
    THEN Outcome("IndexError", registered)
    ELSE LET looped == tasks_loop(registered, list_of_tasks.items,
                                  list_of_time_intervals.items)
         IN  IF looped.raised # "none" THEN looped
             ELSE IF kind \notin problem_function_keys
             THEN Outcome("KeyError", looped.assertions)
             ELSE Outcome("none",
                          set_applied_not_applied_assertions(
                              looped.assertions,
                              problem_function(
                                  kind,
                                  pb_args(ScheduleNTasksInTimeIntervals_all_bools(
                                              list_of_tasks.items)),
                                  nb_tasks_to_schedule)))

ScheduleNTasksInTimeIntervals(list_of_tasks, nb_tasks_to_schedule, list_of_time_intervals, kind) ==
    Construct([ctor |-> "ScheduleNTasksInTimeIntervals",
               list_of_tasks |-> list_of_tasks,
               nb_tasks_to_schedule |-> nb_tasks_to_schedule,
               list_of_time_intervals |-> list_of_time_intervals, kind |-> kind],
              ScheduleNTasksInTimeIntervals_init(
                  assertions, list_of_tasks, nb_tasks_to_schedule,
                  list_of_time_intervals, kind))

---------------------------------------------------------------------------
(* Inputs *)

(* The tasks of S in increasing order. *)
SortedSeq(S) ==
    CHOOSE s \in [1..Cardinality(S) -> S] :
        \A i, j \in 1..Cardinality(S) : i < j => s[i] < s[j]

(* Non-empty lists of different tasks. *)
TaskLists == {SortedSeq(S) : S \in (SUBSET Tasks) \ {{}}}

(* A list_of_tasks argument: a list, or a sequence that is no list. *)
TaskListInputs ==
    {[islist |-> TRUE, items |-> l] : l \in TaskLists}
        \cup {[islist |-> FALSE, items |-> <<1>>]}

Counts == 0..NumTasks

(* Time intervals [lower, upper] with lower < upper. *)
Intervals == {iv \in Times \X Times : iv[1] < iv[2]}

(* Two intervals, the second after the end of the first. *)
DisjointIntervalPairs ==
    {pair \in Intervals \X Intervals : pair[1][2] < pair[2][1]}

(* A list_of_time_intervals argument: one interval, two disjoint           *)
(* intervals in order, an empty list, lists with an interval that has not  *)
(* two elements, or a sequence that is no list.                            *)
IntervalListInputs ==
    {[islist |-> TRUE, items |-> <<iv>>] : iv \in Intervals}
        \cup {[islist |-> TRUE, items |-> pair] : pair \in DisjointIntervalPairs}
        \cup {[islist |-> TRUE, items |-> items] :
                  items \in {<<>>, << <<>> >>, << <<0>> >>, << <<0, 1>>, <<1, 2, 3>> >>}}
        \cup {[islist |-> FALSE, items |-> << <<0, 1>> >>]}

(* The condition argument of OptionalTaskConditionSchedule. *)
Conditions == {Gt(task_start(t), IntVal(0)) : t \in Tasks}

---------------------------------------------------------------------------

Init ==
    /\ optional \in [Tasks -> BOOLEAN]
    /\ lower_bounded = [t \in Tasks |-> FALSE]
    /\ upper_bounded = [t \in Tasks |-> FALSE]
    /\ assertions = <<>>
    /\ ncalls = 0
    /\ last = [ctor |-> "none", raised |-> "none", before |-> 0]

(* One constructor call in a fresh problem context, over every input. *)

Fresh == ncalls = 0

NewTaskPrecedence ==
    /\ Fresh
    /\ \E task_before \in Tasks, task_after \in Tasks,
          offset \in OffsetInputs, kind \in PrecedenceKindInputs :
          TaskPrecedence(task_before, task_after, offset, kind)

NewTasksStartSynced ==
    /\ Fresh
    /\ \E task_1 \in Tasks, task_2 \in Tasks :
          TasksStartSynced(task_1, task_2)

NewTasksEndSynced ==
    /\ Fresh
    /\ \E task_1 \in Tasks, task_2 \in Tasks :
          TasksEndSynced(task_1, task_2)

NewTasksDontOverlap ==
    /\ Fresh
    /\ \E task_1 \in Tasks, task_2 \in Tasks :
          TasksDontOverlap(task_1, task_2)

NewTaskStartAt ==
    /\ Fresh
    /\ \E task \in Tasks, value \in Times :
          TaskStartAt(task, value)

NewTaskStartAfterStrict ==
    /\ Fresh
    /\ \E task \in Tasks, value \in Times :
          TaskStartAfterStrict(task, value)

NewTaskStartAfterLax ==
    /\ Fresh
    /\ \E task \in Tasks, value \in Times :
          TaskStartAfterLax(task, value)

NewTaskEndAt ==
    /\ Fresh
    /\ \E task \in Tasks, value \in Times :
          TaskEndAt(task, value)

NewTaskEndBeforeStrict ==
    /\ Fresh
    /\ \E task \in Tasks, value \in Times :
          TaskEndBeforeStrict(task, value)

NewTaskEndBeforeLax ==
    /\ Fresh
    /\ \E task \in Tasks, value \in Times :
          TaskEndBeforeLax(task, value)

NewOptionalTaskConditionSchedule ==
    /\ Fresh
    /\ \E task \in Tasks, condition \in Conditions :
          OptionalTaskConditionSchedule(task, condition)

NewOptionalTasksDependency ==
    /\ Fresh
    /\ \E task_1 \in Tasks, task_2 \in Tasks :
          OptionalTasksDependency(task_1, task_2)

NewForceScheduleNOptionalTasks ==
    /\ Fresh
    /\ \E tasks \in TaskLists, n \in Counts, kind \in CountKindInputs :
          ForceScheduleNOptionalTasks(tasks, n, kind)

NewScheduleNTasksInTimeIntervals ==
    /\ Fresh
    /\ \E tasks \in TaskListInputs, n \in Counts,
          intervals \in IntervalListInputs, kind \in CountKindInputs :
          ScheduleNTasksInTimeIntervals(tasks, n, intervals, kind)

Next ==
    \/ NewTaskPrecedence
    \/ NewTasksStartSynced
    \/ NewTasksEndSynced
    \/ NewTasksDontOverlap
    \/ NewTaskStartAt
    \/ NewTaskStartAfterStrict
    \/ NewTaskStartAfterLax
    \/ NewTaskEndAt
    \/ NewTaskEndBeforeStrict
    \/ NewTaskEndBeforeLax
    \/ NewOptionalTaskConditionSchedule
    \/ NewOptionalTasksDependency
    \/ NewForceScheduleNOptionalTasks
    \/ NewScheduleNTasksInTimeIntervals

Spec == Init /\ [][Next]_vars

---------------------------------------------------------------------------
(* Successive constructor calls in one problem context, up to MaxCalls,    *)
(* over a reduced set of inputs.                                           *)

SeqIntervalLists == {<< <<0, 1>> >>, << <<2, 3>> >>}

SeqScheduleNTasksInTimeIntervals ==
    /\ ncalls < MaxCalls
    /\ \E tasks \in TaskLists, intervals \in SeqIntervalLists :
          ScheduleNTasksInTimeIntervals([islist |-> TRUE, items |-> tasks], 1,
                                        [islist |-> TRUE, items |-> intervals], "exact")

SeqTaskStartAt ==
    /\ ncalls < MaxCalls
    /\ \E task \in Tasks :
          TaskStartAt(task, 0)

NextSeq ==
    \/ SeqScheduleNTasksInTimeIntervals
    \/ SeqTaskStartAt

SpecSeq == Init /\ [][NextSeq]_vars

---------------------------------------------------------------------------
(* Assignments and the formulas of the last call *)

(* The assertions the last constructor call registered. *)
Registered == SubSeq(assertions, last.before + 1, Len(assertions))

(* An assignment of the solver's variables: the tasks of ts take the       *)
(* values st, en, sc; the indicators of ind are true; every other          *)
(* variable is 0 or false.                                                 *)
NoIndicator == [n \in IndicatorNames |-> FALSE]

Assignment(ts, st, en, sc, ind) ==
    [start |-> [t \in Tasks |-> IF t \in ts THEN st[t] ELSE 0],
     end |-> [t \in Tasks |-> IF t \in ts THEN en[t] ELSE 0],
     scheduled |-> [t \in Tasks |-> IF t \in ts THEN sc[t] ELSE FALSE],
     bool |-> IF ind = {} THEN NoIndicator ELSE [n \in IndicatorNames |-> n \in ind]]

Returned(ctor) == last.ctor = ctor /\ last.raised = "none"

---------------------------------------------------------------------------
(* Relational constraints on two tasks *)

TwoTaskCtors ==
    {"TaskPrecedence", "TasksStartSynced", "TasksEndSynced", "TasksDontOverlap"}

(* The two tasks of the last call, in argument order. *)
FirstTask == IF last.ctor = "TaskPrecedence" THEN last.task_before ELSE last.task_1

SecondTask == IF last.ctor = "TaskPrecedence" THEN last.task_after ELSE last.task_2

(* The precedence relation of the last call under the assignment a. *)
PrecedenceHolds(a) ==
    LET lower == a.end[last.task_before] + last.offset.val
        upper == a.start[last.task_after]
    IN  CASE last.kind = "lax" -> lower <= upper
          [] last.kind = "strict" -> lower < upper
          [] last.kind = "tight" -> lower = upper

(* The relation of the last two-task call under the assignment a. *)
RelationHolds(a) ==
    CASE last.ctor = "TaskPrecedence" -> PrecedenceHolds(a)
      [] last.ctor = "TasksStartSynced" -> a.start[last.task_1] = a.start[last.task_2]
      [] last.ctor = "TasksEndSynced" -> a.end[last.task_1] = a.end[last.task_2]
      [] last.ctor = "TasksDontOverlap" ->
             (a.start[last.task_2] >= a.end[last.task_1])
                 # (a.start[last.task_1] >= a.end[last.task_2])

(* Every assignment of the two tasks of the last call satisfies P. *)
ForAllTwoTaskAssignments(P(_)) ==
    LET ts == {FirstTask, SecondTask}
    IN  \A st \in [ts -> Times], en \in [ts -> Times], sc \in [ts -> BOOLEAN] :
            P(Assignment(ts, st, en, sc, {}))

(* C1: a TaskPrecedence over two non-optional tasks with an integer        *)
(* offset >= 0 registers one formula, which an assignment satisfies if     *)
(* and only if task_before.end + offset <= task_after.start (lax),         *)
(* < (strict) or == (tight).                                               *)
C1_PrecedenceRelation ==
    (/\ Returned("TaskPrecedence")
     /\ ~optional[last.task_before]
     /\ ~optional[last.task_after])
        => /\ Len(Registered) = 1
           /\ last.offset.isint /\ last.offset.val >= 0
           /\ LET f == Registered[1]
                  P(a) == Eval(f, a) <=> PrecedenceHolds(a)
              IN  ForAllTwoTaskAssignments(P)

(* C1 witness: a strict precedence with a positive offset between two      *)
(* different non-optional tasks; its formula rejects lower == upper and    *)
(* accepts lower < upper.                                                  *)
C1_Witness ==
    /\ Returned("TaskPrecedence")
    /\ last.kind = "strict" /\ last.offset.val = 1
    /\ last.task_before = 1 /\ last.task_after = 2
    /\ ~optional[1] /\ ~optional[2]
    /\ LET ts == {1, 2}
           a(e, s) == Assignment(ts, [t \in ts |-> s], [t \in ts |-> e],
                                 [t \in ts |-> TRUE], {})
       IN  /\ ~Eval(Registered[1], a(1, 2))
           /\ Eval(Registered[1], a(1, 3))

(* C2: a two-task constraint with at least one optional task registers     *)
(* (task_1.scheduled AND task_2.scheduled) => relation, which every        *)
(* assignment with a scheduled indicator false satisfies; with no          *)
(* optional task it registers the relation alone, with no guard.           *)
C2_OptionalGuard ==
    (last.ctor \in TwoTaskCtors /\ last.raised = "none")
        => /\ Len(Registered) = 1
           /\ LET f == Registered[1]
                  t1 == FirstTask
                  t2 == SecondTask
                  Guarded(a) ==
                      LET holds == Eval(f, a)
                      IN  /\ holds <=> ((a.scheduled[t1] /\ a.scheduled[t2])
                                            => RelationHolds(a))
                          /\ (~a.scheduled[t1] \/ ~a.scheduled[t2]) => holds
                  Bare(a) == Eval(f, a) <=> RelationHolds(a)
              IN  IF optional[t1] \/ optional[t2]
                  THEN f.op = "Implies" /\ ForAllTwoTaskAssignments(Guarded)
                  ELSE f.op # "Implies" /\ ForAllTwoTaskAssignments(Bare)

(* C2 witness: an end synchronisation of an optional and a non-optional    *)
(* task; with the optional task unscheduled, different ends satisfy the    *)
(* formula, and with both scheduled they do not.                           *)
C2_Witness ==
    /\ Returned("TasksEndSynced")
    /\ last.task_1 = 1 /\ last.task_2 = 2
    /\ optional[1] /\ ~optional[2]
    /\ LET ts == {1, 2}
           a(sc1) == Assignment(ts, [t \in ts |-> 0], [t \in ts |-> t],
                                [t \in ts |-> IF t = 1 THEN sc1 ELSE TRUE], {})
       IN  /\ Eval(Registered[1], a(FALSE))
           /\ ~Eval(Registered[1], a(TRUE))

(* C3: with both tasks scheduled (or both non-optional) and end >= start   *)
(* for each, no assignment satisfying the formula of TasksDontOverlap      *)
(* has both orderings true for tasks of positive duration, and none has    *)
(* neither ordering true.                                                  *)
C3_DontOverlap ==
    Returned("TasksDontOverlap")
        => LET t1 == last.task_1
               t2 == last.task_2
               f == Registered[1]
               P(a) ==
                   LET first == a.start[t2] >= a.end[t1]
                       second == a.start[t1] >= a.end[t2]
                   IN  (/\ a.end[t1] >= a.start[t1]
                        /\ a.end[t2] >= a.start[t2]
                        /\ (optional[t1] \/ optional[t2])
                              => (a.scheduled[t1] /\ a.scheduled[t2])
                        /\ Eval(f, a))
                           => /\ ~(/\ a.end[t1] > a.start[t1]
                                   /\ a.end[t2] > a.start[t2]
                                   /\ first /\ second)
                              /\ (first \/ second)
           IN  ForAllTwoTaskAssignments(P)

(* C3 witness: TasksDontOverlap over two different tasks, one optional,    *)
(* with a satisfying assignment that schedules both with positive          *)
(* duration, and an overlapping one that the formula rejects.              *)
C3_Witness ==
    /\ Returned("TasksDontOverlap")
    /\ last.task_1 = 1 /\ last.task_2 = 2
    /\ optional[1] /\ ~optional[2]
    /\ LET ts == {1, 2}
           a(s2) == Assignment(ts, [t \in ts |-> IF t = 1 THEN 0 ELSE s2],
                               [t \in ts |-> IF t = 1 THEN 2 ELSE 3],
                               [t \in ts |-> TRUE], {})
       IN  /\ Eval(Registered[1], a(2))
           /\ ~Eval(Registered[1], a(1))

---------------------------------------------------------------------------
(* Counting, single-task bounds, dependency *)

(* The number of tasks of the list that sc schedules. *)
NumScheduled(list, sc) == Cardinality({i \in 1..Len(list) : sc[list[i]]})

(* The count c satisfies the kind against n. *)
CountHolds(kind, c, n) ==
    CASE kind = "atleast" -> c >= n
      [] kind = "atmost" -> c <= n
      [] kind = "exact" -> c = n

(* C4: ForceScheduleNOptionalTasks over different optional tasks           *)
(* registers one formula, which an assignment of the scheduled             *)
(* indicators satisfies if and only if the number of true indicators is    *)
(* >= n (atleast), <= n (atmost) or == n (exact).                          *)
C4_ForceScheduleCount ==
    Returned("ForceScheduleNOptionalTasks")
        => /\ Len(Registered) = 1
           /\ \A sc \in [Tasks -> BOOLEAN] :
                  Eval(Registered[1], Assignment(Tasks, [t \in Tasks |-> 0],
                                                 [t \in Tasks |-> 0], sc, {}))
                      <=> CountHolds(last.kind,
                                     NumScheduled(last.list_of_optional_tasks, sc),
                                     last.nb_tasks_to_schedule)

(* C4 witness: three optional tasks, n = 2, kind 'exact'; two true         *)
(* indicators are accepted, one and three are rejected.                    *)
C4_Witness ==
    /\ Returned("ForceScheduleNOptionalTasks")
    /\ last.list_of_optional_tasks = <<1, 2, 3>>
    /\ last.nb_tasks_to_schedule = 2 /\ last.kind = "exact"
    /\ LET a(sc) == Assignment(Tasks, [t \in Tasks |-> 0], [t \in Tasks |-> 0], sc, {})
       IN  /\ Eval(Registered[1], a([t \in Tasks |-> t # 2]))
           /\ ~Eval(Registered[1], a([t \in Tasks |-> t = 2]))
           /\ ~Eval(Registered[1], a([t \in Tasks |-> t \in {1, 2, 3}]))

SingleTaskCtors ==
    {"TaskStartAt", "TaskStartAfterStrict", "TaskStartAfterLax",
     "TaskEndAt", "TaskEndBeforeStrict", "TaskEndBeforeLax"}

(* The comparison of the last single-task call under the assignment a. *)
BoundHolds(a) ==
    CASE last.ctor = "TaskStartAt" -> a.start[last.task] = last.value
      [] last.ctor = "TaskStartAfterStrict" -> a.start[last.task] > last.value
      [] last.ctor = "TaskStartAfterLax" -> a.start[last.task] >= last.value
      [] last.ctor = "TaskEndAt" -> a.end[last.task] = last.value
      [] last.ctor = "TaskEndBeforeStrict" -> a.end[last.task] < last.value
      [] last.ctor = "TaskEndBeforeLax" -> a.end[last.task] <= last.value

(* C5: each single-task bound constructor registers its comparison with    *)
(* the literal value, as task.scheduled => relation for an optional task   *)
(* and as the relation alone otherwise.                                    *)
C5_SingleTaskBounds ==
    (last.ctor \in SingleTaskCtors)
        => /\ last.raised = "none"
           /\ Len(Registered) = 1
           /\ LET ts == {last.task}
              IN  \A st \in [ts -> Times], en \in [ts -> Times], sc \in [ts -> BOOLEAN] :
                      LET a == Assignment(ts, st, en, sc, {})
                      IN  Eval(Registered[1], a)
                              <=> IF optional[last.task]
                                  THEN a.scheduled[last.task] => BoundHolds(a)
                                  ELSE BoundHolds(a)

(* C5 witness: TaskEndBeforeStrict on an optional task; when scheduled,    *)
(* end == value is rejected and end < value accepted; when unscheduled,    *)
(* end == value is accepted.                                               *)
C5_Witness ==
    /\ Returned("TaskEndBeforeStrict")
    /\ last.task = 1 /\ last.value = 2 /\ optional[1]
    /\ LET a(e, sc) == Assignment({1}, [t \in {1} |-> 0], [t \in {1} |-> e],
                                  [t \in {1} |-> sc], {})
       IN  /\ ~Eval(Registered[1], a(2, TRUE))
           /\ Eval(Registered[1], a(1, TRUE))
           /\ Eval(Registered[1], a(2, FALSE))

---------------------------------------------------------------------------
(* Tasks in time intervals *)

(* The last call ran its loop over the tasks to the end: Registered[i] is  *)
(* the implication of the i-th task.                                       *)
LoopCompleted ==
    /\ last.ctor = "ScheduleNTasksInTimeIntervals"
    /\ last.raised \in {"none", "KeyError"}

(* An assignment of the start, the end and the indicator of one task. *)
TaskAssignment(task, s, e, b) ==
    Assignment({task}, [t \in {task} |-> s], [t \in {task} |-> e],
               [t \in {task} |-> TRUE],
               IF b THEN {InTimeIntervalTask(task, 0)} ELSE {})

(* The span [s, e] crosses a boundary of the interval. *)
Crosses(s, e, time_interval) ==
    \/ s < time_interval[1] /\ time_interval[1] < e
    \/ s < time_interval[2] /\ time_interval[2] < e
    \/ s < time_interval[1] /\ e > time_interval[2]

(* The span [s, e] lies within the interval. *)
Within(s, e, time_interval) ==
    time_interval[1] <= s /\ s <= e /\ e <= time_interval[2]

(* C7: for any non-empty list of time intervals (one, or several           *)
(* disjoint), a task whose start and end lie within one of the listed      *)
(* intervals can have its indicator true: that assignment, with the        *)
(* indicator true, satisfies the task's implication.                       *)
C7_InsideMayBeTrue ==
    Returned("ScheduleNTasksInTimeIntervals")
        => \A i \in 1..Len(last.list_of_tasks.items) :
               \A k \in 1..Len(last.list_of_time_intervals.items) :
                   \A s \in Times, e \in Times :
                       Within(s, e, last.list_of_time_intervals.items[k])
                           => Eval(Registered[i],
                                   TaskAssignment(last.list_of_tasks.items[i], s, e, TRUE))

(* C8: in every assignment satisfying the implication registered for a     *)
(* task, a span that crosses a boundary of a listed interval has the       *)
(* task's indicator false.                                                 *)
C8_CrossingIsFalse ==
    LoopCompleted
        => /\ Len(Registered) >= Len(last.list_of_tasks.items)
           /\ \A i \in 1..Len(last.list_of_tasks.items) :
                  LET f == Registered[i]
                      task == last.list_of_tasks.items[i]
                      intervals == last.list_of_time_intervals.items
                  IN  \A s \in Times, e \in Times :
                          (\E k \in 1..Len(intervals) : Crosses(s, e, intervals[k]))
                              => \A b \in BOOLEAN :
                                     Eval(f, TaskAssignment(task, s, e, b)) => ~b

(* C8 witness: one task and the interval [1, 3]; the span [0, 2] crosses   *)
(* the lower boundary, is accepted with the indicator false and rejected   *)
(* with the indicator true, and the span [1, 2] is accepted with it true.  *)
C8_Witness ==
    /\ Returned("ScheduleNTasksInTimeIntervals")
    /\ last.list_of_tasks.items = <<1>>
    /\ last.list_of_time_intervals.items = << <<1, 3>> >>
    /\ Crosses(0, 2, <<1, 3>>)
    /\ Eval(Registered[1], TaskAssignment(1, 0, 2, FALSE))
    /\ ~Eval(Registered[1], TaskAssignment(1, 0, 2, TRUE))
    /\ Eval(Registered[1], TaskAssignment(1, 1, 2, TRUE))

---------------------------------------------------------------------------
(* Failing constructors *)

(* C9: a constructor call that raises leaves the assertions of the         *)
(* context as they were before the call.                                   *)
C9_AllOrNothing ==
    [][last'.raised # "none" => assertions' = assertions]_vars

OptionalOnlyCtors ==
    {"OptionalTaskConditionSchedule", "OptionalTasksDependency",
     "ForceScheduleNOptionalTasks"}

(* Every task the last call requires to be optional is optional. *)
RequiredTasksOptional ==
    CASE last.ctor = "OptionalTaskConditionSchedule" -> optional[last.task]
      [] last.ctor = "OptionalTasksDependency" -> optional[last.task_2]
      [] last.ctor = "ForceScheduleNOptionalTasks" ->
             \A i \in 1..Len(last.list_of_optional_tasks) :
                 optional[last.list_of_optional_tasks[i]]

(* C10, as stated: an optional-only constructor raises the precondition    *)
(* error and registers nothing when a task required to be optional is      *)
(* not, and succeeds when the required tasks are all optional.             *)
C10_OptionalOnlyAsStated ==
    (last.ctor \in OptionalOnlyCtors)
        => IF ~RequiredTasksOptional
           THEN last.raised = "TypeError" /\ Registered = <<>>
           ELSE last.raised = "none"

(* C10, amended: as stated, except that ForceScheduleNOptionalTasks over   *)
(* optional tasks succeeds when its kind is 'atleast', 'atmost' or         *)
(* 'exact', and raises a KeyError, registering nothing, for another kind.  *)
C10_OptionalOnly ==
    (last.ctor \in OptionalOnlyCtors)
        => IF ~RequiredTasksOptional
           THEN last.raised = "TypeError" /\ Registered = <<>>
           ELSE IF last.ctor = "ForceScheduleNOptionalTasks"
                   /\ last.kind \notin {"atleast", "atmost", "exact"}
           THEN last.raised = "KeyError" /\ Registered = <<>>
           ELSE last.raised = "none" /\ Len(Registered) = 1

(* C10 witness: ForceScheduleNOptionalTasks over three tasks of which      *)
(* only the last is not optional raises and registers nothing.             *)
C10_Witness ==
    /\ last.ctor = "ForceScheduleNOptionalTasks"
    /\ last.list_of_optional_tasks = <<1, 2, 3>>
    /\ optional[1] /\ optional[2] /\ ~optional[3]
    /\ last.kind = "exact"
    /\ last.raised = "TypeError"
    /\ Registered = <<>>

---------------------------------------------------------------------------
(* Parameters of TaskPrecedence *)

(* C11: TaskPrecedence raises the parameter error and registers nothing    *)
(* if and only if kind is not 'lax', 'strict' or 'tight' or offset is not  *)
(* an integer >= 0; every other call returns and registers its formula.    *)
C11_PrecedenceParameters ==
    (last.ctor = "TaskPrecedence")
        => LET invalid ==
                   \/ last.kind \notin {"lax", "strict", "tight"}
                   \/ ~last.offset.isint
                   \/ last.offset.val < 0
           IN  IF invalid
               THEN last.raised = "ValueError" /\ Registered = <<>>
               ELSE last.raised = "none" /\ Len(Registered) = 1

(* C11 witness: a valid kind with the offset -1 raises and registers       *)
(* nothing.                                                                *)
C11_Witness ==
    /\ last.ctor = "TaskPrecedence"
    /\ last.kind = "tight"
    /\ last.offset.isint /\ last.offset.val = -1
    /\ last.raised = "ValueError"
    /\ Registered = <<>>

---------------------------------------------------------------------------
(* Bound flags of a task *)

(* C12: after a single-task bound constraint on a fresh task,              *)
(* TaskStartAfterStrict and TaskStartAfterLax leave it lower_bounded and   *)
(* not upper_bounded, TaskEndBeforeStrict and TaskEndBeforeLax leave it    *)
(* upper_bounded and not lower_bounded, TaskStartAt and TaskEndAt leave    *)
(* both flags false; the constraint's value is the value passed.           *)
C12_BoundFlags ==
    (last.ctor \in SingleTaskCtors /\ last.raised = "none")
        => /\ last.value \in Times
           /\ lower_bounded[last.task]
                  = (last.ctor \in {"TaskStartAfterStrict", "TaskStartAfterLax"})
           /\ upper_bounded[last.task]
                  = (last.ctor \in {"TaskEndBeforeStrict", "TaskEndBeforeLax"})

---------------------------------------------------------------------------
(* Number of tasks in the time intervals *)

(* The tasks of the list whose span lies within one of the intervals,      *)
(* under the assignment a.                                                 *)
TasksWithin(list, intervals, a) ==
    {i \in 1..Len(list) :
        \E k \in 1..Len(intervals) :
            Within(a.start[list[i]], a.end[list[i]], intervals[k])}

(* C13: ScheduleNTasksInTimeIntervals schedules n tasks among the m        *)
(* listed in the time interval: in every assignment satisfying the         *)
(* registered formulas, the number of listed tasks whose start and end     *)
(* lie within the interval is == n (exact), <= n (atmost) or >= n          *)
(* (atleast).                                                              *)
C13_CountInInterval ==
    (/\ Returned("ScheduleNTasksInTimeIntervals")
     /\ last.nb_tasks_to_schedule >= 1
     /\ last.nb_tasks_to_schedule <= Len(last.list_of_tasks.items))
        => LET list == last.list_of_tasks.items
               intervals == last.list_of_time_intervals.items
               ts == {list[i] : i \in 1..Len(list)}
               fs == Registered
           IN  \A st \in [ts -> Times], en \in [ts -> Times] :
                   \A ind \in SUBSET {InTimeIntervalTask(t, 0) : t \in ts} :
                       LET a == Assignment(ts, st, en, [t \in ts |-> TRUE], ind)
                       IN  ((\A t \in ts : st[t] <= en[t])
                            /\ \A j \in 1..Len(fs) : Eval(fs[j], a))
                               => CountHolds(last.kind,
                                             Cardinality(TasksWithin(list, intervals, a)),
                                             last.nb_tasks_to_schedule)

---------------------------------------------------------------------------
(* Indicators of successive interval constraints *)

(* The names of the Bool variables that occur in a formula. *)
RECURSIVE IndicatorsOf(_)
IndicatorsOf(f) ==
    CASE f.op = "Bool" -> {f.name}
      [] f.op \in {"And", "Or", "Not", "Implies", "Xor"} ->
             UNION {IndicatorsOf(f.args[i]) : i \in 1..Len(f.args)}
      [] f.op \in {"PbGe", "PbLe", "PbEq"} ->
             UNION {IndicatorsOf(f.args[i][1]) : i \in 1..Len(f.args)}
      [] OTHER -> {}

(* The names of the Bool variables of a sequence of formulas. *)
IndicatorsIn(fs) == UNION {IndicatorsOf(fs[i]) : i \in 1..Len(fs)}

(* C14: the indicators a ScheduleNTasksInTimeIntervals call creates are    *)
(* fresh: none of them occurs in an assertion registered by an earlier     *)
(* call in the same problem context.                                       *)
C14_FreshIndicators ==
    Returned("ScheduleNTasksInTimeIntervals")
        => IndicatorsIn(SubSeq(assertions, 1, last.before))
               \cap IndicatorsIn(Registered) = {}

---------------------------------------------------------------------------
(* Exclusive-or and disjunction of the two orderings *)

(* C15: for two tasks with end >= start, both orderings of                *)
(* TasksDontOverlap hold together only when both tasks have zero duration  *)
(* at the same instant; on every other assignment the registered           *)
(* exclusive-or agrees with the disjunction of the orderings, and the      *)
(* only non-overlapping scheduled configuration it rejects is two          *)
(* zero-duration tasks at the same instant.                                *)
C15_XorAgreesWithOr ==
    Returned("TasksDontOverlap")
        => LET t1 == last.task_1
               t2 == last.task_2
               f == Registered[1]
               P(a) ==
                   LET first == a.start[t2] >= a.end[t1]
                       second == a.start[t1] >= a.end[t2]
                       same == /\ a.start[t1] = a.end[t1]
                               /\ a.start[t2] = a.end[t2]
                               /\ a.start[t1] = a.start[t2]
                       holds == Eval(f, a)
                   IN  (/\ a.end[t1] >= a.start[t1]
                        /\ a.end[t2] >= a.start[t2]
                        /\ (optional[t1] \/ optional[t2])
                              => (a.scheduled[t1] /\ a.scheduled[t2]))
                           => /\ (first /\ second) => same
                              /\ ~same => (holds <=> (first \/ second))
                              /\ ((first \/ second) /\ ~holds) => same
                              /\ same => ~holds
           IN  ForAllTwoTaskAssignments(P)

(* C15 witness: TasksDontOverlap over two different tasks; two             *)
(* zero-duration tasks at instant 1 are rejected, a task ending where the  *)
(* other starts is accepted.                                               *)
C15_Witness ==
    /\ Returned("TasksDontOverlap")
    /\ last.task_1 = 1 /\ last.task_2 = 2
    /\ ~optional[1] /\ ~optional[2]
    /\ LET ts == {1, 2}
           a(e1, e2) == Assignment(ts, [t \in ts |-> 1],
                                   [t \in ts |-> IF t = 1 THEN e1 ELSE e2],
                                   [t \in ts |-> TRUE], {})
       IN  /\ ~Eval(Registered[1], a(1, 1))
           /\ Eval(Registered[1], a(1, 2))
           /\ ~Eval(Registered[1], a(2, 2))

===========================================================================
